---- MODULE Spec2Model ----
(***************************************************************************)
(* The StatusIcon applet plugin of blueman                                 *)
(* (src/blueman/plugins/applet/StatusIcon.py): when the tray icon is       *)
(* visible, which icon name and tooltip it carries, and which bus signals  *)
(* each handler emits.                                                     *)
(*                                                                         *)
(* Python's Optional values are modelled as sequences of length <= 1:      *)
(* None is <<>> and a present value v is <<v>>.                            *)
(***************************************************************************)
EXTENDS Integers, Sequences, FiniteSets, TLC

VARIABLES
    loaded,              \* on_load has run (the plugin instance is live)
    adapters,            \* parent.Manager.get_adapters()
    plugins,             \* parent.Plugins.get_loaded_plugins(), in load order
    manager_state,       \* parent.manager_state
    symbolic,            \* general_config "symbolic-status-icons"
    visible,             \* StatusIcon.visible
    visibility_timeout,  \* StatusIcon.visibility_timeout
    sources,             \* GLib timeout sources that are pending
    tooltip_title,       \* StatusIcon._tooltip_title
    tooltip_text,        \* StatusIcon._tooltip_text
    implementations,     \* StatusIcon._implementations
    signals,             \* bus signals emitted by the most recent handler, in order
    launched,            \* the most recent handler launched blueman-tray
    ret,                 \* what the most recent handler returned
    call,                \* the most recent handler and its arguments
    queried,             \* history: the visibility condition as query_visibility last saw it
    announced,           \* history: the value the most recent VisibilityChanged signal carried
    stale                \* history: a plugin was loaded or unloaded since query_visibility last ran

vars == <<loaded, adapters, plugins, manager_state, symbolic, visible,
          visibility_timeout, sources, tooltip_title, tooltip_text,
          implementations, signals, launched, ret, call, queried, announced, stale>>

----------------------------------------------------------------------------
(* Bounds of the model *)

MaxAdapters == 1
MaxLoaded == 2

(* The delay of the hide timer, in milliseconds *)
HideDelayMs == 2500

None == <<>>
Some(v) == <<v>>

AdapterPaths == 1..MaxAdapters

----------------------------------------------------------------------------
(* The plugins the host can load.  Each answers the three queries the      *)
(* StatusIcon plugin makes; "impl", "force" and "icon" are None for a      *)
(* plugin that is not an instance of the corresponding class.              *)

Plugin(impl, force, icon) == [impl |-> impl, force |-> force, icon |-> icon]

PluginCatalogue ==
    [ StatusNotifierItem |->
        Plugin(Some(<<"StatusNotifierItem", 20>>), None, Some(None)),
      PowerManager |->
        Plugin(None, Some(TRUE), Some(Some("blueman-disabled"))),
      AppIndicator |->
        Plugin(Some(<<"AppIndicator", 10>>), Some(FALSE), Some(Some("blueman-active-symbolic"))),
      Themed |->
        Plugin(Some(<<"ThemedStatusIcon", 10>>), None, Some(Some("blueman-sym-symbolicbolic"))) ]

PluginNames == DOMAIN PluginCatalogue

Range(q) == {q[i] : i \in 1..Len(q)}

(* get_loaded_plugins(cls): the loaded plugins that are instances of cls, in load order *)
get_loaded_plugins(plg, cls) ==
    SelectSeq(plg, LAMBDA p : PluginCatalogue[p][cls] # None)

on_query_status_icon_implementation(p) == PluginCatalogue[p].impl[1]
on_query_force_status_icon_visibility(p) == PluginCatalogue[p].force[1]
on_status_icon_query_icon(p) == PluginCatalogue[p].icon[1]

----------------------------------------------------------------------------
(* Pure functions *)

(* sorted(..., key=priority, reverse=True): a stable sort, so providers of  *)
(* equal priority keep their load order.  InsertByPriority puts x behind    *)
(* every element whose priority is not smaller.                             *)
RECURSIVE InsertByPriority(_, _)
InsertByPriority(sorted, x) ==
    IF sorted = <<>> THEN <<x>>
    ELSE IF Head(sorted)[2] >= x[2]
         THEN <<Head(sorted)>> \o InsertByPriority(Tail(sorted), x)
         ELSE <<x>> \o sorted

RECURSIVE SortedByPriority(_)
SortedByPriority(pairs) ==
    IF pairs = <<>> THEN <<>>
    ELSE InsertByPriority(SortedByPriority(SubSeq(pairs, 1, Len(pairs) - 1)),
                          pairs[Len(pairs)])

QueriedImplementations(plg) ==
    LET providers == get_loaded_plugins(plg, "impl")
    IN  [i \in 1..Len(providers) |-> on_query_status_icon_implementation(providers[i])]

(* The list in load order, the sort left out *)
get_status_icon_implementations_unsorted(plg) ==
    LET pairs == QueriedImplementations(plg)
    IN  [i \in 1..Len(pairs) |-> pairs[i][1]] \o <<"GtkStatusIcon">>

get_status_icon_implementations(plg) ==
    LET ordered == SortedByPriority(QueriedImplementations(plg))
    IN  [i \in 1..Len(ordered) |-> ordered[i][1]] \o <<"GtkStatusIcon">>

(* str.startswith *)
StartsWith(s, prefix) ==
    Len(s) >= Len(prefix) /\ SubSeq(s, 1, Len(prefix)) = prefix

(* str.replace(old, new): one pass from the left over non-overlapping occurrences *)
RECURSIVE Replace(_, _, _)
Replace(s, old, new) ==
    IF Len(s) < Len(old) THEN s
    ELSE IF StartsWith(s, old)
         THEN new \o Replace(SubSeq(s, Len(old) + 1, Len(s)), old, new)
         ELSE SubSeq(s, 1, 1) \o Replace(SubSeq(s, 2, Len(s)), old, new)

(* The loop stopped at the first provider that answers *)
RECURSIVE BaseIconName_first_wins(_, _)
BaseIconName_first_wins(name, providers) ==
    IF providers = <<>> THEN name
    ELSE LET icon == on_status_icon_query_icon(Head(providers))
         IN  IF icon # None THEN icon[1]
             ELSE BaseIconName_first_wins(name, Tail(providers))

(* The loop of _get_icon_name: the default, overwritten by every provider's non-None answer *)
RECURSIVE BaseIconName(_, _)
BaseIconName(name, providers) ==
    IF providers = <<>> THEN name
    ELSE LET icon == on_status_icon_query_icon(Head(providers))
         IN  BaseIconName(IF icon # None THEN icon[1] ELSE name, Tail(providers))

(* The tail of _get_icon_name: "-symbolic" is replaced away, then appended if the setting is on *)
symbolic_variant(name, sym) ==
    LET fullcolor == Replace(name, "-symbolic", "")
    IN  IF sym THEN fullcolor \o "-symbolic" ELSE fullcolor

get_icon_name(plg, sym) ==
    symbolic_variant(BaseIconName("blueman-tray", get_loaded_plugins(plg, "icon")), sym)

----------------------------------------------------------------------------
(* The handlers, as transformers of the part of the state they write.  A   *)
(* handler starts from Entry, which holds the plugin's fields and the       *)
(* environment it reads, with no signal emitted yet.                        *)

Signal(name, arg) == [name |-> name, arg |-> arg]

Entry(adp, plg, sym) ==
    [ adapters |-> adp, plugins |-> plg, symbolic |-> sym,
      visible |-> visible, visibility_timeout |-> visibility_timeout,
      sources |-> sources, tooltip_title |-> tooltip_title,
      tooltip_text |-> tooltip_text, implementations |-> implementations,
      signals |-> <<>>, launched |-> FALSE, ret |-> None, dispatching |-> {},
      queried |-> queried, announced |-> announced, stale |-> stale ]

emit_dbus_signal(s, name, arg) ==
    [s EXCEPT !.signals = Append(@, Signal(name, arg))]

(* launch('blueman-tray', icon_name='blueman', sn=False) *)
launch(s) == [s EXCEPT !.launched = TRUE]

(* Python's truth value of an Optional[int] *)
Truthy(opt) == opt # None /\ opt[1] # 0

(* The condition of query_visibility: an adapter exists or a loaded handler forces visibility *)
ShouldShow(adp, plg) ==
    \/ adp # {}
    \/ \E p \in Range(get_loaded_plugins(plg, "force")) :
          on_query_force_status_icon_visibility(p)

(* The signal emitted only when the value changes *)
set_visible_only_on_change(s, v, emit) ==
    LET t == [s EXCEPT !.visible = Some(v)]
    IN  IF emit /\ s.visible # Some(v)
        THEN [emit_dbus_signal(t, "VisibilityChanged", v) EXCEPT !.announced = Some(v)]
        ELSE t

set_visible(s, v, emit) ==
    LET t == [s EXCEPT !.visible = Some(v)]
    IN  IF emit
        THEN [emit_dbus_signal(t, "VisibilityChanged", v) EXCEPT !.announced = Some(v)]
        ELSE t

(* The id GLib gives a new source: positive and not in use.  The plugin only *)
(* tests the id for truth and hands it back to source_remove, so the least   *)
(* free id stands for any.  The id of the source whose callback is running   *)
(* (s.dispatching) is not given out again before the callback has returned.  *)
NewSourceId(pending) ==
    CHOOSE id \in 1..(Cardinality(pending) + 1) :
        id \notin pending /\ \A other \in 1..(id - 1) : other \in pending

(* self.visibility_timeout = GLib.timeout_add(2500, self.on_visibility_timeout) *)
timeout_add(s, interval) ==
    [s EXCEPT !.visibility_timeout = Some(NewSourceId(s.sources \cup s.dispatching)),
              !.sources = @ \cup {NewSourceId(s.sources \cup s.dispatching)}]

(* The pending timer tested before the adapters and handlers *)
query_visibility_timer_first(s, delay_hiding, emit) ==
    LET t == [s EXCEPT !.queried = Some(ShouldShow(s.adapters, s.plugins)),
                       !.stale = FALSE]
    IN  IF Truthy(s.visibility_timeout) THEN t
        ELSE IF ShouldShow(s.adapters, s.plugins) THEN set_visible(t, TRUE, emit)
        ELSE IF delay_hiding THEN timeout_add(t, HideDelayMs)
        ELSE set_visible(t, FALSE, emit)

(* The icon hidden at once although the hiding is to be delayed *)
query_visibility_hides_at_once(s, delay_hiding, emit) ==
    LET t == [s EXCEPT !.queried = Some(ShouldShow(s.adapters, s.plugins)),
                       !.stale = FALSE]
    IN  IF ShouldShow(s.adapters, s.plugins) THEN set_visible(t, TRUE, emit)
        ELSE IF ~Truthy(s.visibility_timeout)
             THEN IF delay_hiding THEN set_visible(timeout_add(t, HideDelayMs), FALSE, emit)
                  ELSE set_visible(t, FALSE, emit)
             ELSE t

(* The test for a pending timer left out *)
query_visibility_ignores_pending(s, delay_hiding, emit) ==
    LET t == [s EXCEPT !.queried = Some(ShouldShow(s.adapters, s.plugins)),
                       !.stale = FALSE]
    IN  IF ShouldShow(s.adapters, s.plugins) THEN set_visible(t, TRUE, emit)
        ELSE IF delay_hiding THEN timeout_add(t, HideDelayMs)
        ELSE set_visible(t, FALSE, emit)

query_visibility(s, delay_hiding, emit) ==
    LET show == ShouldShow(s.adapters, s.plugins)
        t == [s EXCEPT !.queried = Some(show), !.stale = FALSE]
    IN  IF show THEN set_visible(t, TRUE, emit)
        ELSE IF ~Truthy(s.visibility_timeout)
             THEN IF delay_hiding THEN timeout_add(t, HideDelayMs)
                  ELSE set_visible(t, FALSE, emit)
             ELSE t

(* Visibility re-evaluated before the icon name is announced *)
icon_should_change_query_first(s) ==
    LET t == query_visibility(s, FALSE, TRUE)
    IN  emit_dbus_signal(t, "IconNameChanged", get_icon_name(t.plugins, t.symbolic))

icon_should_change(s) ==
    query_visibility(
        emit_dbus_signal(s, "IconNameChanged", get_icon_name(s.plugins, s.symbolic)),
        FALSE, TRUE)

(* The tooltip fields hold None until on_load creates them *)
set_tooltip_title(s, title) ==
    emit_dbus_signal([s EXCEPT !.tooltip_title = Some(title)], "ToolTipTitleChanged", title)

(* The text stored as given, None included *)
set_tooltip_text_as_given(s, text) ==
    LET t == [s EXCEPT !.tooltip_text = text]
    IN  emit_dbus_signal(t, "ToolTipTextChanged", t.tooltip_text)

(* text is an Optional[str]; the signal carries the field as stored *)
set_tooltip_text(s, text) ==
    LET t == [s EXCEPT !.tooltip_text = IF text = None THEN Some("") ELSE text]
    IN  emit_dbus_signal(t, "ToolTipTextChanged", t.tooltip_text)

on_plugins_changed(s, state) ==
    LET impls == get_status_icon_implementations(s.plugins)
        t == IF s.implementations = None \/ s.implementations[1] = <<>>
                  \/ s.implementations[1] # impls
             THEN [s EXCEPT !.implementations = Some(impls)]
             ELSE s
    IN  IF state THEN launch(t) ELSE t

on_manager_state_changed(s, state) ==
    LET t == query_visibility(s, FALSE, TRUE)
    IN  IF state THEN launch(t) ELSE t

(* GLib.source_remove(id) *)
source_remove(s, id) == [s EXCEPT !.sources = @ \ {id}]

(* Visibility re-evaluated before the field is cleared *)
on_visibility_timeout_query_first(s) ==
    IF s.visibility_timeout = None THEN s
    ELSE LET t == query_visibility(source_remove(s, s.visibility_timeout[1]), FALSE, TRUE)
         IN  [t EXCEPT !.visibility_timeout = None, !.ret = Some(FALSE)]

(* The timer forgotten without visibility being re-evaluated *)
on_visibility_timeout_no_requery(s) ==
    IF s.visibility_timeout = None THEN s
    ELSE [source_remove(s, s.visibility_timeout[1])
             EXCEPT !.visibility_timeout = None, !.ret = Some(FALSE)]

(* Visibility re-evaluated with delay_hiding, so the timer is set again *)
on_visibility_timeout_rearmed(s) ==
    IF s.visibility_timeout = None THEN s
    ELSE LET t == query_visibility(
                    [source_remove(s, s.visibility_timeout[1])
                        EXCEPT !.visibility_timeout = None],
                    TRUE, TRUE)
         IN  [t EXCEPT !.ret = Some(FALSE)]

(* The assertion fails and the callback ends there when no timer is recorded; *)
(* otherwise the source is removed, the field cleared, visibility re-evaluated *)
(* without delay, and False returned.                                          *)
on_visibility_timeout(s) ==
    IF s.visibility_timeout = None THEN s
    ELSE LET t == query_visibility(
                    [source_remove(s, s.visibility_timeout[1])
                        EXCEPT !.visibility_timeout = None],
                    FALSE, TRUE)
         IN  [t EXCEPT !.ret = Some(FALSE)]

(* The first query made with delay_hiding *)
on_load_delayed(s) ==
    query_visibility(
        [s EXCEPT !.tooltip_title = Some("Bluetooth Enabled"), !.tooltip_text = Some("")],
        TRUE, FALSE)

on_load(s) ==
    query_visibility(
        [s EXCEPT !.tooltip_title = Some("Bluetooth Enabled"), !.tooltip_text = Some("")],
        FALSE, FALSE)

----------------------------------------------------------------------------
(* Bus methods: each returns a field or a pure function of the state *)

GetVisibility == visible[1]
GetToolTipTitle == tooltip_title[1]
GetToolTipText == tooltip_text[1]
GetStatusIconImplementations == get_status_icon_implementations(plugins)
GetIconName == get_icon_name(plugins, symbolic)

----------------------------------------------------------------------------
(* The state machine *)

(* The orders in which at most MaxLoaded distinct plugins can have been loaded *)
LoadOrders ==
    {q \in UNION {[1..n -> PluginNames] : n \in 0..MaxLoaded} :
        \A i, j \in 1..Len(q) : i # j => q[i] # q[j]}

TooltipTitles == {"Bluetooth Enabled", "Bluetooth Disabled"}
TooltipTexts == {None, Some("Connected")}

Call(op, args) == [op |-> op, args |-> args]

(* The handler named by c ran to its end in state r (r is evaluated once) *)
Commit(r, c) ==
    /\ call' = c
    /\ \E q \in {r} :
          /\ adapters' = q.adapters
          /\ plugins' = q.plugins
          /\ symbolic' = q.symbolic
          /\ visible' = q.visible
          /\ visibility_timeout' = q.visibility_timeout
          /\ sources' = q.sources
          /\ tooltip_title' = q.tooltip_title
          /\ tooltip_text' = q.tooltip_text
          /\ implementations' = q.implementations
          /\ signals' = q.signals
          /\ launched' = q.launched
          /\ ret' = q.ret
          /\ queried' = q.queried
          /\ announced' = q.announced
          /\ stale' = q.stale

Here == Entry(adapters, plugins, symbolic)

Init ==
    /\ loaded = FALSE
    /\ adapters \in SUBSET AdapterPaths
    /\ plugins \in LoadOrders
    /\ manager_state \in BOOLEAN
    /\ symbolic \in BOOLEAN
    /\ visible = None
    /\ visibility_timeout = None
    /\ sources = {}
    /\ tooltip_title = None
    /\ tooltip_text = None
    /\ implementations = None
    /\ signals = <<>>
    /\ launched = FALSE
    /\ ret = None
    /\ call = Call("init", <<>>)
    /\ queried = None
    /\ announced = None
    /\ stale = FALSE

OnLoad ==
    /\ ~loaded
    /\ loaded' = TRUE
    /\ UNCHANGED manager_state
    /\ Commit(on_load(Here), Call("on_load", <<>>))

(* Another plugin, or this one, asks for the visibility to be re-evaluated *)
QueryVisibility ==
    /\ loaded
    /\ UNCHANGED <<loaded, manager_state>>
    /\ \E delay_hiding \in BOOLEAN, emit \in BOOLEAN :
          Commit(query_visibility(Here, delay_hiding, emit),
                 Call("query_visibility", <<delay_hiding, emit>>))

(* GLib runs the callback of a pending source; the callback's False, or its *)
(* exception, ends the source.                                               *)
OnVisibilityTimeout ==
    /\ loaded
    /\ UNCHANGED <<loaded, manager_state>>
    /\ \E fired \in sources :
          \E entry \in {[Here EXCEPT !.dispatching = {fired}]} :
          \E r \in {on_visibility_timeout(entry)} :
              Commit(IF r.ret = Some(TRUE) THEN r ELSE source_remove(r, fired),
                     Call("on_visibility_timeout", <<>>))

SetTooltipTitle ==
    /\ loaded
    /\ UNCHANGED <<loaded, manager_state>>
    /\ \E title \in TooltipTitles :
          Commit(set_tooltip_title(Here, title), Call("set_tooltip_title", <<title>>))

SetTooltipText ==
    /\ loaded
    /\ UNCHANGED <<loaded, manager_state>>
    /\ \E text \in TooltipTexts :
          Commit(set_tooltip_text(Here, text), Call("set_tooltip_text", <<text>>))

(* The setting flips and the "changed::symbolic-status-icons" handler runs *)
OnSymbolicConfigChange ==
    /\ loaded
    /\ UNCHANGED <<loaded, manager_state>>
    /\ Commit(icon_should_change(Entry(adapters, plugins, ~symbolic)),
              Call("on_symbolic_config_change", <<>>))

(* An icon provider reports that its icon changed *)
IconShouldChange ==
    /\ loaded
    /\ UNCHANGED <<loaded, manager_state>>
    /\ Commit(icon_should_change(Here), Call("icon_should_change", <<>>))

OnAdapterAdded ==
    /\ loaded
    /\ UNCHANGED <<loaded, manager_state>>
    /\ \E path \in AdapterPaths \ adapters :
          Commit(query_visibility(Entry(adapters \cup {path}, plugins, symbolic),
                                  FALSE, TRUE),
                 Call("on_adapter_added", <<>>))

OnAdapterRemoved ==
    /\ loaded
    /\ UNCHANGED <<loaded, manager_state>>
    /\ \E path \in adapters :
          Commit(query_visibility(Entry(adapters \ {path}, plugins, symbolic),
                                  FALSE, TRUE),
                 Call("on_adapter_removed", <<>>))

OnManagerStateChanged ==
    /\ loaded
    /\ UNCHANGED loaded
    /\ \E state \in BOOLEAN :
          /\ manager_state' = state
          /\ Commit(on_manager_state_changed(Here, state),
                    Call("on_manager_state_changed", <<state>>))

(* The host loads a plugin and signals 'plugin-loaded' *)
OnPluginLoaded ==
    /\ loaded
    /\ Len(plugins) < MaxLoaded
    /\ UNCHANGED <<loaded, manager_state>>
    /\ \E p \in PluginNames \ Range(plugins) :
          Commit([on_plugins_changed(Entry(adapters, Append(plugins, p), symbolic),
                                     manager_state) EXCEPT !.stale = TRUE],
                 Call("plugin-loaded", <<>>))

(* The host unloads a plugin and signals 'plugin-unloaded' *)
OnPluginUnloaded ==
    /\ loaded
    /\ UNCHANGED <<loaded, manager_state>>
    /\ \E i \in 1..Len(plugins) :
          Commit([on_plugins_changed(
                      Entry(adapters,
                            SubSeq(plugins, 1, i - 1) \o SubSeq(plugins, i + 1, Len(plugins)),
                            symbolic),
                      manager_state) EXCEPT !.stale = TRUE],
                 Call("plugin-unloaded", <<>>))

Next ==
    \/ OnLoad
    \/ QueryVisibility
    \/ OnVisibilityTimeout
    \/ SetTooltipTitle
    \/ SetTooltipText
    \/ OnSymbolicConfigChange
    \/ IconShouldChange
    \/ OnAdapterAdded
    \/ OnAdapterRemoved
    \/ OnManagerStateChanged
    \/ OnPluginLoaded
    \/ OnPluginUnloaded

Spec == Init /\ [][Next]_vars

(* GLib's main loop dispatches a pending timeout source once its interval   *)
(* has passed: the callback of a pending hide timer is not postponed for    *)
(* ever.                                                                    *)
FairSpec == Spec /\ WF_vars(OnVisibilityTimeout)

----------------------------------------------------------------------------
(* Helpers of the properties *)

Orderings(n) ==
    {f \in [1..n -> 1..n] : \A i, j \in 1..n : i # j => f[i] # f[j]}

(* The positions at which pat occurs in s *)
Occurrences(s, pat) ==
    {i \in 1..(Len(s) - Len(pat) + 1) : SubSeq(s, i, i + Len(pat) - 1) = pat}

EndsWith(s, suffix) ==
    Len(s) >= Len(suffix) /\ SubSeq(s, Len(s) - Len(suffix) + 1, Len(s)) = suffix

Max(S) == CHOOSE x \in S : \A y \in S : y <= x

VisibilityChanged(v) == Signal("VisibilityChanged", v)

(* The VisibilityChanged signals among those of the most recent handler *)
VisibilitySignals(sigs) == SelectSeq(sigs, LAMBDA g : g.name = "VisibilityChanged")

----------------------------------------------------------------------------
(* C1: GetStatusIconImplementations returns the loaded providers'          *)
(* implementation names, each once, in an order of non-increasing          *)
(* priority, followed by "GtkStatusIcon" as the last element; its length   *)
(* is the number of providers plus one, and the list _on_plugins_changed   *)
(* stores is that list.                                                    *)
C1_ImplementationsByPriority ==
    loaded =>
        LET pairs == QueriedImplementations(plugins)
            n == Len(pairs)
            r == GetStatusIconImplementations
        IN  /\ Len(r) = n + 1
            /\ r[Len(r)] = "GtkStatusIcon"
            /\ \E f \in Orderings(n) :
                  /\ \A i \in 1..n : r[i] = pairs[f[i]][1]
                  /\ \A i \in 1..(n - 1) : pairs[f[i]][2] >= pairs[f[i + 1]][2]
            /\ call.op \in {"plugin-loaded", "plugin-unloaded"} => implementations = Some(r)

(* Two providers loaded lowest priority first, so the sort has reordered them *)
C1_Witness ==
    /\ call.op = "plugin-loaded"
    /\ plugins = <<"AppIndicator", "StatusNotifierItem">>
    /\ implementations = Some(<<"StatusNotifierItem", "AppIndicator", "GtkStatusIcon">>)

(* C3: GetIconName contains no "-symbolic" when the setting is off, and    *)
(* ends with "-symbolic" and contains it exactly once when the setting is  *)
(* on, whatever name the providers supply.                                 *)
C3_SymbolicExactlyWhenSet ==
    loaded =>
        IF symbolic
        THEN /\ EndsWith(GetIconName, "-symbolic")
             /\ Cardinality(Occurrences(GetIconName, "-symbolic")) = 1
        ELSE Occurrences(GetIconName, "-symbolic") = {}

(* C4: the name _get_icon_name starts from is the answer of the last       *)
(* loaded StatusIconProvider that answers with a name, and "blueman-tray"  *)
(* if none does; IconNameChanged carries that name's variant.              *)
C4_Expected ==
    LET providers == get_loaded_plugins(plugins, "icon")
        answering == {i \in 1..Len(providers) : on_status_icon_query_icon(providers[i]) # None}
    IN  IF answering = {} THEN "blueman-tray"
        ELSE on_status_icon_query_icon(providers[Max(answering)])[1]

C4_LastProviderWins ==
    loaded =>
        /\ BaseIconName("blueman-tray", get_loaded_plugins(plugins, "icon")) = C4_Expected
        /\ call.op \in {"icon_should_change", "on_symbolic_config_change"} =>
              signals[1] = Signal("IconNameChanged", symbolic_variant(C4_Expected, symbolic))

(* Two providers answer with a name; the later one's is announced *)
C4_Witness ==
    /\ call.op = "icon_should_change"
    /\ plugins = <<"AppIndicator", "PowerManager">>
    /\ ~symbolic
    /\ signals[1] = Signal("IconNameChanged", "blueman-disabled")

(* The handlers that run query_visibility to its end with the timer field  *)
(* as they found it, and the emit argument each passes.                    *)
QueryCallers ==
    {"query_visibility", "on_adapter_added", "on_adapter_removed",
     "on_manager_state_changed", "icon_should_change", "on_symbolic_config_change"}

EmitArgument(c) == IF c.op = "query_visibility" THEN c.args[2] ELSE c.op # "on_load"

(* C2: when query_visibility has run with an adapter present or a handler  *)
(* forcing visibility, visible is True, whatever delay_hiding was and       *)
(* whether or not a hide timer is pending, and VisibilityChanged(True) was  *)
(* emitted exactly if emit was true.                                        *)
C2_ShownWheneverWanted ==
    (call.op \in QueryCallers \cup {"on_load", "on_visibility_timeout"}
        /\ ShouldShow(adapters, plugins)) =>
        /\ visible = Some(TRUE)
        /\ VisibilitySignals(signals) =
              IF EmitArgument(call) THEN <<VisibilityChanged(TRUE)>> ELSE <<>>

(* A delayed, silent query that found an adapter while a hide timer was pending *)
C2_Witness ==
    /\ call = Call("query_visibility", <<TRUE, FALSE>>)
    /\ adapters # {}
    /\ visibility_timeout # None
    /\ visible = Some(TRUE)
    /\ signals = <<>>

(* C5: after on_load the tooltip getters return "Bluetooth Enabled" and     *)
(* ""; each setter stores its argument (the empty string for None) and      *)
(* emits exactly one signal carrying the stored value; no other handler     *)
(* changes the stored values; the stored text is never None.                *)
C5_Stored ==
    /\ loaded => tooltip_title # None /\ tooltip_text # None
    /\ call.op = "on_load" => GetToolTipTitle = "Bluetooth Enabled" /\ GetToolTipText = ""
    /\ call.op = "set_tooltip_title" =>
          /\ GetToolTipTitle = call.args[1]
          /\ signals = <<Signal("ToolTipTitleChanged", GetToolTipTitle)>>
    /\ call.op = "set_tooltip_text" =>
          /\ tooltip_text = IF call.args[1] = None THEN Some("") ELSE call.args[1]
          /\ signals = <<Signal("ToolTipTextChanged", tooltip_text)>>

C5_KeptUntilSet ==
    /\ call'.op \notin {"on_load", "set_tooltip_title"} => tooltip_title' = tooltip_title
    /\ call'.op \notin {"on_load", "set_tooltip_text"} => tooltip_text' = tooltip_text

C5_Tooltips == [](C5_Stored) /\ [][C5_KeptUntilSet]_vars

(* set_tooltip_text(None) has stored and announced the empty string *)
C5_Witness ==
    /\ call = Call("set_tooltip_text", <<None>>)
    /\ GetToolTipText = ""
    /\ GetToolTipTitle = "Bluetooth Disabled"
    /\ signals = <<Signal("ToolTipTextChanged", Some(""))>>

(* C6: when on_load has completed, visible is the boolean (adapters         *)
(* non-empty or some loaded handler forces visibility), no hide timer is    *)
(* pending and no signal has been emitted; GetVisibility is a boolean in    *)
(* every state after on_load.                                               *)
C6_BooleanAfterLoad ==
    /\ call.op = "on_load" =>
          /\ visible = Some(ShouldShow(adapters, plugins))
          /\ visibility_timeout = None
          /\ sources = {}
          /\ signals = <<>>
    /\ loaded => visible # None /\ GetVisibility \in BOOLEAN

(* on_load with no adapter and no forcing handler: hidden at once *)
C6_Witness ==
    /\ call.op = "on_load"
    /\ ~ShouldShow(adapters, plugins)
    /\ visible = Some(FALSE)
    /\ visibility_timeout = None

(* C7, as claimed: in every state after on_load with no hide timer        *)
(* pending, visible is (adapters non-empty or some loaded handler forces    *)
(* visibility), plugin-loaded and plugin-unloaded events included.          *)
C7_AlwaysCurrent ==
    (loaded /\ visibility_timeout = None) =>
        visible = Some(ShouldShow(adapters, plugins))

(* C7, amended: in every state after on_load with no hide timer pending,    *)
(* visible is the condition as query_visibility last evaluated it; that is  *)
(* the present condition unless a plugin was loaded or unloaded since,      *)
(* because _on_plugins_changed does not re-evaluate visibility.             *)
C7_CurrentAsOfLastQuery ==
    (loaded /\ visibility_timeout = None) =>
        /\ visible = queried
        /\ ~stale => visible = Some(ShouldShow(adapters, plugins))

(* The hide timer has fired with nothing to show: hidden, nothing pending *)
C7_Witness ==
    /\ call.op = "on_visibility_timeout"
    /\ visibility_timeout = None
    /\ ~stale
    /\ ~ShouldShow(adapters, plugins)
    /\ visible = Some(FALSE)

(* C8: query_visibility(delay_hiding=True) with no adapter, no forcing      *)
(* handler and no hide timer pending schedules exactly one timer, leaves    *)
(* visible as it was and emits no signal; while a timer is pending only     *)
(* its callback hides the icon.                                             *)
C8_DelayStep ==
    (/\ call'.op = "query_visibility"
     /\ call'.args[1]
     /\ ~ShouldShow(adapters', plugins')
     /\ visibility_timeout = None) =>
        /\ visible' = visible
        /\ visibility_timeout' # None
        /\ visibility_timeout'[1] \notin sources
        /\ sources' = sources \cup {visibility_timeout'[1]}
        /\ signals' = <<>>

C8_HiddenOnlyByTimer ==
    (visibility_timeout # None /\ visible # Some(FALSE) /\ visible' = Some(FALSE)) =>
        call'.op = "on_visibility_timeout"

C8_DelayedHiding == [][C8_DelayStep /\ C8_HiddenOnlyByTimer]_vars

(* A delayed query has scheduled the timer and the icon is still shown *)
C8_Witness ==
    /\ call.op = "query_visibility"
    /\ call.args[1]
    /\ ~ShouldShow(adapters, plugins)
    /\ sources = {visibility_timeout[1]}
    /\ visible = Some(TRUE)
    /\ signals = <<>>

(* C9: at most one hide timer is pending, the one visibility_timeout        *)
(* names; while it is pending, a query_visibility that finds no adapter     *)
(* and no forcing handler schedules nothing, leaves visible as it was and   *)
(* emits no VisibilityChanged, whatever delay_hiding is.                    *)
C9_OneTimer ==
    /\ Cardinality(sources) <= 1
    /\ sources = IF visibility_timeout = None THEN {} ELSE {visibility_timeout[1]}

C9_PendingStep ==
    (/\ call'.op \in QueryCallers
     /\ visibility_timeout # None
     /\ ~ShouldShow(adapters', plugins')) =>
        /\ sources' = sources
        /\ visibility_timeout' = visibility_timeout
        /\ visible' = visible
        /\ VisibilitySignals(signals') = <<>>

C9_AtMostOneTimer == [](C9_OneTimer) /\ [][C9_PendingStep]_vars

(* A query without delay, made while the timer is pending, has not hidden the icon *)
C9_Witness ==
    /\ call.op = "query_visibility"
    /\ ~call.args[1]
    /\ ~ShouldShow(adapters, plugins)
    /\ visibility_timeout # None
    /\ visible = Some(TRUE)
    /\ signals = <<>>

(* C10: when on_visibility_timeout has returned, no timer is pending,       *)
(* visible is (adapters non-empty or some handler forces visibility),       *)
(* exactly one VisibilityChanged signal carrying that value has been        *)
(* emitted, and the callback has returned False.                            *)
C10_TimerFired ==
    call.op = "on_visibility_timeout" =>
        /\ visibility_timeout = None
        /\ sources = {}
        /\ visible = Some(ShouldShow(adapters, plugins))
        /\ signals = <<VisibilityChanged(ShouldShow(adapters, plugins))>>
        /\ ret = Some(FALSE)

(* The timer has fired after an adapter came back: the icon stays shown *)
C10_Witness ==
    /\ call.op = "on_visibility_timeout"
    /\ adapters # {}
    /\ visible = Some(TRUE)
    /\ signals = <<VisibilityChanged(TRUE)>>
    /\ sources = {}

(* C11: once query_visibility has run with no adapter and no forcing       *)
(* handler, then as long as that stays so, the timer callback being run     *)
(* fairly, visible becomes False with no timer pending; and a False visible *)
(* stays False until an adapter appears or a handler forces visibility.     *)
C11_Queried ==
    /\ call.op \in QueryCallers \cup {"on_load", "on_visibility_timeout"}
    /\ ~ShouldShow(adapters, plugins)

C11_Hidden == visible = Some(FALSE) /\ visibility_timeout = None /\ sources = {}

C11_StaysHidden ==
    (visible = Some(FALSE) /\ ~ShouldShow(adapters', plugins')) => visible' = Some(FALSE)

C11_EventuallyHidden ==
    /\ C11_Queried ~> (C11_Hidden \/ ShouldShow(adapters, plugins))
    /\ [][C11_StaysHidden]_vars

(* The timer set by a delayed query has fired and hidden the icon *)
C11_Witness ==
    /\ call.op = "on_visibility_timeout"
    /\ queried = Some(FALSE)
    /\ C11_Hidden
    /\ signals = <<VisibilityChanged(FALSE)>>

C12_SignalsCarryVisibility ==
    \A i \in 1..Len(VisibilitySignals(signals)) :
        /\ announced = visible
        /\ VisibilitySignals(signals)[i].arg = GetVisibility

(* The step is a handler in which query_visibility decides, that is, calls *)
(* set_visible: always in the timer callback, and otherwise unless it      *)
(* finds nothing to show and either a timer is pending or it is to delay.  *)
C12_Decides ==
    \/ call'.op = "on_visibility_timeout"
    \/ /\ call'.op \in QueryCallers
       /\ \/ ShouldShow(adapters', plugins')
          \/ visibility_timeout = None /\ ~(call'.op = "query_visibility" /\ call'.args[1])

C12_Step ==
    /\ (C12_Decides /\ EmitArgument(call')) =>
          VisibilitySignals(signals') = <<VisibilityChanged(visible'[1])>>
    /\ (announced # None /\ announced = visible /\ announced' # visible') =>
          (call'.op = "query_visibility" /\ ~call'.args[2])

C13_IconNameFirst ==
    call.op \in {"icon_should_change", "on_symbolic_config_change"} =>
        /\ Len(signals) >= 1
        /\ signals[1] = Signal("IconNameChanged", GetIconName)
        /\ \A i \in 2..Len(signals) : signals[i].name = "VisibilityChanged"
        /\ Len(SelectSeq(signals, LAMBDA g : g.name = "IconNameChanged")) = 1

(* The setting was switched on: the symbolic name is announced, then the visibility *)
C13_Witness ==
    /\ call.op = "on_symbolic_config_change"
    /\ symbolic
    /\ plugins = <<"PowerManager">>
    /\ signals = << Signal("IconNameChanged", "blueman-disabled-symbolic"),
                    VisibilityChanged(TRUE) >>

====
